---------------------------- MODULE Spec2Model ----------------------------
(***************************************************************************)
(* Model of the credit-switcher plugin                                     *)
(* (src/.opencode/plugins/credit-switcher.js): the session.error event     *)
(* handler (Fallback Decision Engine) and runRestoreCheck (Restore         *)
(* Sweeper), sharing state.stateData, state.attemptedSessions and the      *)
(* state file, against a host that answers the client.* calls.             *)
(*                                                                         *)
(* Strings are sequences of tokens (a token stands for a run of            *)
(* characters that contains no "/" and no blank; "/" and " " are tokens of *)
(* their own).  JavaScript values are records [t, n, s] tagged with their  *)
(* type.  Every `await` after which shared state is read or written is a   *)
(* separate step of the handler or of the pass; answers of the host are    *)
(* chosen by the step that receives them.                                  *)
(***************************************************************************)
EXTENDS Integers, Sequences, FiniteSets, TLC

(***************************************************************************)
(* Bounds of the model.                                                    *)
(***************************************************************************)
\* number of clock ticks the model follows after plugin start
MaxTicks == 5
\* the same where the state file holds a record when the plugin starts
MaxRecordTicks == 3

(***************************************************************************)
(* Program constants.                                                      *)
(***************************************************************************)
HOUR_MS == 3600000
DAY_MS == 24 * 60 * 60 * 1000
DefaultIntervalHours == 24
MinIntervalHours == 1

\* Date.now() when the plugin starts (any value above every interval used)
ClockStart == 48 * HOUR_MS
\* the instants at which the clock is read, in quarters of an hour after the
\* start: on the hour, and between the hours where a late timer can fire
QuarterMs == HOUR_MS \div 4
Offsets == <<4, 6, 8, 9, 12>>
Instant(k) ==
    ClockStart + QuarterMs *
        (IF k = 0 THEN 0
         ELSE IF k <= Len(Offsets) THEN Offsets[k]
         ELSE Offsets[Len(Offsets)] + 4 * (k - Len(Offsets)))
NextInstant(t) ==
    LET k == CHOOSE i \in 0..MaxTicks : Instant(i) = t IN Instant(k + 1)

(***************************************************************************)
(* JavaScript values.                                                      *)
(***************************************************************************)
Undef == [t |-> "undef", n |-> 0, s |-> <<>>]
Null == [t |-> "null", n |-> 0, s |-> <<>>]
Num(k) == [t |-> "num", n |-> k, s |-> <<>>]
Str(x) == [t |-> "str", n |-> 0, s |-> x]

\* truthiness of a value: `!value`, `value || other`
Truthy(v) ==
    CASE v.t = "num" -> v.n # 0
      [] v.t = "str" -> v.s # <<>>
      [] OTHER -> FALSE

\* a || b
OrElse(a, b) == IF Truthy(a) THEN a ELSE b

(***************************************************************************)
(* String helpers: toLowerCase, trim, includes, split("/"), join("/").     *)
(***************************************************************************)
LowerTok(c) ==
    CASE c = "CREDIT" -> "credit"
      [] c = "Credit" -> "credit"
      [] c = "QUOTA" -> "quota"
      [] c = "Quota" -> "quota"
      [] c = "P1" -> "p1"
      [] c = "P2" -> "p2"
      [] OTHER -> c

ToLowerCase(x) == [i \in 1..Len(x) |-> LowerTok(x[i])]

RECURSIVE TrimStart(_)
TrimStart(x) == IF x # <<>> /\ Head(x) = " " THEN TrimStart(Tail(x)) ELSE x

RECURSIVE TrimEnd(_)
TrimEnd(x) ==
    IF x # <<>> /\ x[Len(x)] = " " THEN TrimEnd(SubSeq(x, 1, Len(x) - 1)) ELSE x

Trim(x) == TrimEnd(TrimStart(x))

Includes(text, sub) ==
    \E i \in 0..(Len(text) - Len(sub)) : SubSeq(text, i + 1, i + Len(sub)) = sub

RECURSIVE SplitSlash(_)
SplitSlash(x) ==
    IF \A i \in 1..Len(x) : x[i] # "/"
    THEN <<x>>
    ELSE LET i == CHOOSE k \in 1..Len(x) :
                      x[k] = "/" /\ \A j \in 1..(k - 1) : x[j] # "/"
         IN <<SubSeq(x, 1, i - 1)>> \o SplitSlash(SubSeq(x, i + 1, Len(x)))

RECURSIVE JoinSlash(_)
JoinSlash(parts) ==
    IF parts = <<>> THEN <<>>
    ELSE IF Len(parts) = 1 THEN parts[1]
    ELSE parts[1] \o <<"/">> \o JoinSlash(Tail(parts))

(***************************************************************************)
(* parseModel, modelToString, modelsEqual.                                 *)
(* A ModelRef is [ok, providerId, modelId]; ok = FALSE is null.            *)
(***************************************************************************)
NoModel == [ok |-> FALSE, providerId |-> <<>>, modelId |-> <<>>]
Ref(p, m) == [ok |-> TRUE, providerId |-> p, modelId |-> m]

parseModel(value) ==
    IF ~Truthy(value) \/ value.t # "str" THEN NoModel
    ELSE LET parts == SplitSlash(value.s)
         IN IF Len(parts) < 2 THEN NoModel
            ELSE Ref(parts[1], JoinSlash(Tail(parts)))

modelToString(model) ==
    IF ~model.ok THEN Null
    ELSE IF model.providerId # <<>> /\ model.modelId # <<>>
         THEN Str(model.providerId \o <<"/">> \o model.modelId)
         ELSE Null

\* departure: the model id is compared with the provider id
modelsEqual_Crossed(a, b) ==
    IF ~a.ok \/ ~b.ok THEN FALSE
    ELSE a.providerId = b.providerId /\ a.modelId = b.providerId

modelsEqual_AnyPair(a, b) ==
    IF ~a.ok \/ ~b.ok THEN FALSE
    ELSE TRUE

modelsEqual(a, b) ==
    IF ~a.ok \/ ~b.ok THEN FALSE
    ELSE a.providerId = b.providerId /\ a.modelId = b.modelId

(***************************************************************************)
(* Number(value): [finite, n]; finite = FALSE is NaN.                      *)
(***************************************************************************)
NaN == [finite |-> FALSE, n |-> 0]
Finite(k) == [finite |-> TRUE, n |-> k]

DigitToks == {"402", "429", "500"}

TokNumber(c) ==
    CASE c = "402" -> 402
      [] c = "429" -> 429
      [] c = "500" -> 500
      [] OTHER -> 0

JsNumber(v) ==
    CASE v.t = "num" -> Finite(v.n)
      [] v.t = "null" -> Finite(0)
      [] v.t = "str" ->
            LET x == Trim(v.s)
            IN IF x = <<>> THEN Finite(0)
               ELSE IF Len(x) = 1 /\ x[1] \in DigitToks THEN Finite(TokNumber(x[1]))
               ELSE NaN
      [] OTHER -> NaN

(***************************************************************************)
(* Configuration (DEFAULT_CONFIG shape after normalizeConfig).             *)
(***************************************************************************)
BaseConfig ==
    [ enabled |-> TRUE,
      primaryModel |-> Str(<<"p1", "/", "m1">>),
      fallbackModel |-> Str(<<"p2", "/", "m2">>),
      requireProviders |-> <<>>,
      restoreEnabled |-> TRUE,
      intervalHours |-> Num(1),
      onStatus |-> <<Num(429)>>,
      onErrorCodes |-> <<<<"QUOTA">>>>,
      onMessageMatches |-> <<<<"Credit">>>>,
      toastOnFallback |-> TRUE,
      toastOnRestore |-> TRUE,
      confirmOnFallback |-> FALSE ]

\* the configurations the model starts from: the base one and one-field
\* departures from it
Configs ==
    { BaseConfig,
      [BaseConfig EXCEPT !.enabled = FALSE],
      [BaseConfig EXCEPT !.requireProviders = <<<<"p1">>, <<"P2">>>>],
      [BaseConfig EXCEPT !.confirmOnFallback = TRUE],
      [BaseConfig EXCEPT !.fallbackModel = Str(<<"p2">>)],
      [BaseConfig EXCEPT !.fallbackModel = Str(<<"p2", "/">>)],
      [BaseConfig EXCEPT !.primaryModel = Undef],
      [BaseConfig EXCEPT !.primaryModel = Str(<<"p2", "/", "m1">>)],
      [BaseConfig EXCEPT !.restoreEnabled = FALSE],
      [BaseConfig EXCEPT !.toastOnFallback = FALSE, !.toastOnRestore = FALSE] }

(***************************************************************************)
(* Events.  Each signal is a list of candidate locations, in the order     *)
(* the extractors try them.                                                *)
(***************************************************************************)
\* JSON.stringify(event): the keys and values present, in order
ValueToks(v) ==
    CASE v.t = "str" -> v.s
      [] v.t = "num" -> <<IF v.n = 429 THEN "429" ELSE IF v.n = 500 THEN "500" ELSE "#">>
      [] v.t = "null" -> <<"null">>
      [] OTHER -> <<>>

RECURSIVE StringifyList(_, _)
StringifyList(key, vals) ==
    IF vals = <<>> THEN <<>>
    ELSE (IF Head(vals).t = "undef" THEN <<>> ELSE <<key>> \o ValueToks(Head(vals)))
         \o StringifyList(key, Tail(vals))

JsonStringify(event) ==
    <<"type">> \o <<event.type>>
    \o StringifyList("status", event.statusC)
    \o StringifyList("code", event.codeC)
    \o StringifyList("message", event.messageC)
    \o StringifyList("id", event.sessionC)

RECURSIVE FirstFinite(_)
FirstFinite(vals) ==
    IF vals = <<>> THEN NaN
    ELSE IF JsNumber(Head(vals)).finite THEN JsNumber(Head(vals))
    ELSE FirstFinite(Tail(vals))

\* first candidate that is a string with a non-blank character
RECURSIVE FirstString(_)
FirstString(vals) ==
    IF vals = <<>> THEN Undef
    ELSE IF Head(vals).t = "str" /\ Trim(Head(vals).s) # <<>> THEN Head(vals)
    ELSE FirstString(Tail(vals))

\* NaN stands for the null returned when no candidate is finite
extractStatus(event) == FirstFinite(event.statusC)

\* <<>> is null
extractCode(event) == Trim(FirstString(event.codeC).s)

extractText(event) ==
    IF FirstString(event.messageC).t = "str"
    THEN ToLowerCase(FirstString(event.messageC).s)
    ELSE ToLowerCase(JsonStringify(event))

\* <<>> is null
extractSessionId(event) == Trim(FirstString(event.sessionC).s)

statusMatches(event, cfg) ==
    LET status == extractStatus(event)
    IN \E i \in 1..Len(cfg.onStatus) :
           /\ status.finite
           /\ JsNumber(cfg.onStatus[i]).finite
           /\ JsNumber(cfg.onStatus[i]).n = status.n

codeMatches(event, cfg) ==
    LET code == extractCode(event)
    IN IF code # <<>>
       THEN \E i \in 1..Len(cfg.onErrorCodes) :
                ToLowerCase(cfg.onErrorCodes[i]) = ToLowerCase(code)
       ELSE FALSE

textMatches(event, cfg) ==
    LET text == extractText(event)
    IN IF text # <<>>
       THEN \E i \in 1..Len(cfg.onMessageMatches) :
                Includes(text, ToLowerCase(cfg.onMessageMatches[i]))
       ELSE FALSE

\* departure: any status on the event counts as a match
isCreditExhausted_AnyStatus(event, cfg) ==
    extractStatus(event).finite \/ codeMatches(event, cfg) \/ textMatches(event, cfg)

\* departure: the three signals have to agree
isCreditExhausted_All(event, cfg) ==
    statusMatches(event, cfg) /\ codeMatches(event, cfg) /\ textMatches(event, cfg)

isCreditExhausted(event, cfg) ==
    statusMatches(event, cfg) \/ codeMatches(event, cfg) \/ textMatches(event, cfg)

Ev(type, st, co, msg, sid) ==
    [ type |-> type,
      statusC |-> <<st, Undef, Undef, Undef>>,
      codeC |-> <<co, Undef, Undef, Undef>>,
      messageC |-> <<msg, Undef, Undef, Undef>>,
      sessionC |-> <<Undef, sid, Undef, Undef, Undef, Undef>> ]

S1 == <<"s1">>
S2 == <<"s2">>
Sessions == {S1, S2}

EventTypes == {"session.error", "session.idle"}
StatusVals == {Undef, Num(429), Num(500)}
CodeVals == {Undef, Str(<<"quota">>), Str(<<"other">>)}
MessageVals == {Undef, Str(<<"no", " ", "CREDIT", " ", "left">>), Str(<<"boom">>)}
SessionVals == {Undef, Str(S1), Str(S2)}

\* every combination of the three signals on session s1, the matching and the
\* silent ones on s2 and without a session, other event types, and events
\* that carry a signal at another location
Events ==
    { Ev("session.error", st, co, msg, Str(S1)) :
        st \in StatusVals, co \in CodeVals, msg \in MessageVals }
    \cup
    { Ev(ty, st, Undef, msg, sid) :
        ty \in EventTypes, st \in {Num(429), Num(500)}, msg \in {Str(<<"boom">>)},
        sid \in SessionVals }
    \cup
    { \* status only at the last location, as a numeric string
      [Ev("session.error", Undef, Undef, Str(<<"boom">>), Str(S1))
          EXCEPT !.statusC = <<Undef, Undef, Undef, Str(<<"429">>)>>],
      \* no structured message: the serialized payload is searched
      [Ev("session.error", Num(500), Str(<<"Credit">>), Undef, Str(S1))
          EXCEPT !.codeC = <<Num(7), Undef, Undef, Undef>>,
                 !.sessionC = <<Str(<<" ", "s1", " ">>), Undef, Undef, Undef, Undef, Undef>>],
      \* no structured message, and the serialized payload holds a configured
      \* substring in the value of the code
      Ev("session.error", Num(500), Str(<<"CREDIT">>), Undef, Str(S1)),
      \* session id at the last location only
      [Ev("session.error", Num(429), Undef, Undef, Undef)
          EXCEPT !.sessionC = <<Undef, Undef, Undef, Undef, Undef, Str(S2)>>] }

(***************************************************************************)
(* The host: models a session can be on, answers of the client calls.      *)
(***************************************************************************)
PrimaryRef == Ref(<<"p1">>, <<"m1">>)
FallbackRef == Ref(<<"p2">>, <<"m2">>)
ForeignRef == Ref(<<"p3">>, <<"m3">>)
\* getSessionModel: the model the session is on at the time of the call, or
\* NoModel when client.session.get throws or reports no model.  The host
\* and its user move sessions between models at any time, so every answer
\* can arrive at every call.
SessionAnswers == {PrimaryRef, FallbackRef, ForeignRef, NoModel}

\* client.config.providers(): a throw, or the provider ids listed
ProviderAnswers ==
    { [ok |-> FALSE, ids |-> <<>>],
      [ok |-> TRUE, ids |-> <<>>],
      [ok |-> TRUE, ids |-> <<<<"p1">>>>],
      [ok |-> TRUE, ids |-> <<<<"P1">>, <<"p2">>, <<"p3">>>>] }

\* client.session.messages(): a throw, or the history, oldest first
Msg(role, parts) == [role |-> role, parts |-> parts]
HiParts == <<"hi">>
OldParts == <<"old">>
MessageAnswers ==
    { [ok |-> FALSE, msgs |-> <<>>],
      [ok |-> TRUE, msgs |-> <<>>],
      [ok |-> TRUE, msgs |-> <<Msg("assistant", <<"x">>)>>],
      [ok |-> TRUE, msgs |-> <<Msg("user", HiParts), Msg("assistant", <<"x">>)>>],
      [ok |-> TRUE, msgs |-> <<Msg("user", OldParts), Msg("user", <<>>)>>] }

\* client.tui.showConfirm(): a throw, a boolean, or a payload without one
ConfirmAnswers == {"throw", "yes", "no", "other"}

(***************************************************************************)
(* hasRequiredProviders, getLastUserMessage, confirmFallback on an answer. *)
(***************************************************************************)
needsProviders(cfg) == Len(cfg.requireProviders) # 0

\* the answers that can arrive: none is awaited when nothing is required
ProviderAnswersFor(cfg) ==
    IF needsProviders(cfg) THEN ProviderAnswers ELSE {[ok |-> TRUE, ids |-> <<>>]}

\* departure: one required provider present is enough
hasRequiredProviders_Some(answer, cfg) ==
    IF ~needsProviders(cfg) THEN TRUE
    ELSE LET providers == IF answer.ok THEN answer.ids ELSE <<>>
             ids == {ToLowerCase(providers[i]) : i \in 1..Len(providers)}
         IN IF Len(providers) = 0 THEN FALSE
            ELSE \E i \in 1..Len(cfg.requireProviders) :
                     ToLowerCase(cfg.requireProviders[i]) \in ids

hasRequiredProviders(answer, cfg) ==
    IF ~needsProviders(cfg) THEN TRUE
    ELSE LET providers == IF answer.ok THEN answer.ids ELSE <<>>
             ids == {ToLowerCase(providers[i]) : i \in 1..Len(providers)}
         IN IF Len(providers) = 0 THEN FALSE
            ELSE \A i \in 1..Len(cfg.requireProviders) :
                     ToLowerCase(cfg.requireProviders[i]) \in ids

isUser(entry) == entry.role = "user" \/ entry.role = "UserMessage"

\* [found, parts]: the entry returned, scanning from the most recent
getLastUserMessage(answer) ==
    LET hits == {i \in 1..Len(answer.msgs) :
                     isUser(answer.msgs[i]) /\ Len(answer.msgs[i].parts) # 0}
    IN IF ~answer.ok \/ hits = {} THEN [found |-> FALSE, parts |-> <<>>]
       ELSE LET last == CHOOSE i \in hits : \A j \in hits : j <= i
            IN [found |-> TRUE, parts |-> answer.msgs[last].parts]

\* whether confirmFallback calls client.tui.showConfirm
asksConfirm(cfg, cl) == cfg.confirmOnFallback /\ cl.showConfirm

\* departure: the answer of the dialog is ignored
confirmFallback_Always(cfg, cl, answer) == TRUE

confirmFallback(cfg, cl, answer) ==
    IF ~asksConfirm(cfg, cl) THEN TRUE
    ELSE answer # "no"

(***************************************************************************)
(* state.stateData.sessions: an object, kept as its entries in insertion   *)
(* order.  oid is the identity of the record object.                       *)
(***************************************************************************)
HasKey(m, k) == \E i \in 1..Len(m) : m[i].sid = k
KeyIndex(m, k) == CHOOSE i \in 1..Len(m) : m[i].sid = k
Keys(m) == {m[i].sid : i \in 1..Len(m)}
\* departure: the store is replaced by the one new entry
Put_Reset(m, k, r) == <<[sid |-> k, rec |-> r]>>

Put(m, k, r) ==
    IF HasKey(m, k) THEN [m EXCEPT ![KeyIndex(m, k)] = [sid |-> k, rec |-> r]]
    ELSE Append(m, [sid |-> k, rec |-> r])

\* identity of the object that replaces the session's entry
NextOid(m, k) == IF HasKey(m, k) THEN m[KeyIndex(m, k)].rec.oid + 1 ELSE 1

NewRecord(now, original, fallback, oid) ==
    [ exhaustedAt |-> now,
      lastFallbackAt |-> now,
      originalModel |-> original,
      fallbackModel |-> fallback,
      restoredAt |-> 0,
      lastRestoreAttemptAt |-> 0,
      oid |-> oid ]

(***************************************************************************)
(* Interval of the sweep.                                                  *)
(***************************************************************************)
Max(a, b) == IF a >= b THEN a ELSE b

\* Number(intervalHours || 24)
intervalHoursOf(cfg) == JsNumber(OrElse(cfg.intervalHours, Num(DefaultIntervalHours)))

\* Math.max(1, hours) * 60 * 60 * 1000.  NaN is written 0 here: like 0 it is
\* falsy where the threshold is taken, and no finite result is below HOUR_MS
intervalMsOf(cfg) ==
    IF intervalHoursOf(cfg).finite
    THEN Max(MinIntervalHours, intervalHoursOf(cfg).n) * HOUR_MS
    ELSE 0

\* the period setInterval runs with: a delay that is NaN or below 1 is 1 ms
timerDelay(intervalMs) == IF intervalMs >= 1 THEN intervalMs ELSE 1

\* departure: half the interval
thresholdOf_Half(intervalMs) == IF intervalMs # 0 THEN intervalMs \div 2 ELSE DAY_MS

thresholdOf(intervalMs) == IF intervalMs # 0 THEN intervalMs ELSE DAY_MS

(***************************************************************************)
(* State.                                                                  *)
(***************************************************************************)
VARIABLES
    scope,          \* what the run explores: [handlers, passes, ticks, sessions]
    config,         \* state.config, fixed after load
    client,         \* capabilities of the host client
    started,        \* the plugin function has returned its hooks
    clock,          \* Date.now()
    timerDue,       \* next time state.restoreTimer fires; 0: no timer
    attempted,      \* state.attemptedSessions
    stateData,      \* state.stateData: [sessions, lastCheckAt]
    disk,           \* content of the state file
    handlers,       \* running invocations of the event hook
    passes,         \* running invocations of runRestoreCheck
    promptCalls,    \* client.session.prompt calls issued, per session
    delivered,      \* sessions with a prompt the host accepted
    confirmCalls,   \* client.tui.showConfirm calls issued, per session
    lastScanStart   \* start time of the latest pass that scanned; 0: none

vars ==
    << scope, config, client, started, clock, timerDue, attempted, stateData, disk,
       handlers, passes, promptCalls, delivered, confirmCalls, lastScanStart >>

\* invocations that can be in progress at once
Handlers == {1, 2}
Passes == {1, 2}

\* sent: the model and parts of the prompt issued
IdleHandler ==
    [ pc |-> "idle", sid |-> <<>>, sessionModel |-> NoModel, parts |-> <<>>,
      sent |-> [model |-> NoModel, parts |-> <<>>], calls |-> {}, outcome |-> "" ]

\* target: the model of the update call issued; seen: the entries for which
\* getSessionModel was called
IdlePass ==
    [ pc |-> "idle", now |-> 0, entries |-> <<>>, idx |-> 0, target |-> NoModel,
      seen |-> {}, calls |-> {}, outcome |-> "" ]

\* a record left by an earlier process, two hours before this start
OldRecord ==
    NewRecord(ClockStart - 2 * HOUR_MS, Str(<<"p1", "/", "m1">>),
              Str(<<"p2", "/", "m2">>), 0)

\* what loadState can find in the state file
FileWithRecord ==
    [sessions |-> <<[sid |-> S1, rec |-> OldRecord]>>, lastCheckAt |-> 0]

EmptyFile == [sessions |-> <<>>, lastCheckAt |-> 0]

\* two sessions fell back in an earlier process
FileWithTwo ==
    [sessions |-> <<[sid |-> S1, rec |-> OldRecord], [sid |-> S2, rec |-> OldRecord]>>,
     lastCheckAt |-> 0]

\* the earlier process swept half an hour before this start
FileJustChecked == [FileWithRecord EXCEPT !.lastCheckAt = ClockStart - 2 * QuarterMs]

\* how much of the plugin's concurrency a run explores: the number of hook
\* invocations and of passes in progress at once, the number of clock
\* instants after the start, and the sessions that raise events
Scope(h, p, t, ss) ==
    [handlers |-> h, passes |-> p, ticks |-> t, sessions |-> ss]

Setup(c, cl, f, sc) == [config |-> c, client |-> cl, file |-> f, scope |-> sc]

WithConfirm == [showConfirm |-> TRUE]
WithoutConfirm == [showConfirm |-> FALSE]

\* restore.intervalHours in the configuration file: unset, zero, numbers,
\* and a string that is no number
IntervalValues == {Undef, Num(0), Num(1), Num(2), Str(<<"daily">>)}

\* the set-ups the model starts from
Setups ==
    \* overlapping hook invocations on one session
    { Setup(c, WithConfirm, EmptyFile, Scope(2, 1, 0, {S1})) :
        c \in {BaseConfig, [BaseConfig EXCEPT !.confirmOnFallback = TRUE]} }
    \cup
    \* every configuration: a hook invocation and the passes of two instants
    { Setup(c, WithConfirm, FileWithRecord, Scope(1, 1, 1, {S1})) : c \in Configs }
    \cup
    { Setup([BaseConfig EXCEPT !.confirmOnFallback = TRUE], WithoutConfirm,
            FileWithRecord, Scope(1, 1, 1, {S1})) }
    \cup
    \* two sessions with records, events on both
    { Setup(BaseConfig, WithConfirm, FileWithTwo, Scope(1, 1, 0, Sessions)) }
    \cup
    \* overlapping passes over several intervals
    { Setup(BaseConfig, WithConfirm, EmptyFile, Scope(0, 2, MaxTicks, {S1})) }
    \cup
    { Setup(BaseConfig, WithConfirm, f, Scope(0, 2, MaxRecordTicks, {S1})) :
        f \in {FileWithRecord, FileJustChecked} }
    \cup
    \* the values restore.intervalHours can have: the start of the plugin
    { Setup([BaseConfig EXCEPT !.intervalHours = v], WithConfirm, EmptyFile,
            Scope(0, 1, 0, {S1})) : v \in IntervalValues }

\* the state after construction, for one of the given set-ups
InitFrom(setups) ==
    /\ \E su \in setups :
           /\ scope = su.scope
           /\ config = su.config
           /\ client = su.client
           /\ stateData = su.file
    /\ started = FALSE
    /\ clock = ClockStart
    /\ timerDue = 0
    /\ attempted = {}
    /\ disk = stateData
    /\ handlers = [h \in Handlers |-> IdleHandler]
    /\ passes = [p \in Passes |-> IdlePass]
    /\ promptCalls = [s \in Sessions |-> 0]
    /\ delivered = {}
    /\ confirmCalls = [s \in Sessions |-> 0]
    /\ lastScanStart = 0

Init == InitFrom(Setups)

(***************************************************************************)
(* The environment: time passes.                                           *)
(***************************************************************************)
Tick ==
    /\ started
    /\ clock < Instant(scope.ticks)
    /\ clock' = NextInstant(clock)
    /\ UNCHANGED << scope, config, client, started, timerDue, attempted, stateData,
                    disk, handlers, passes, promptCalls,
                    delivered, confirmCalls,
                    lastScanStart >>

(***************************************************************************)
(* The event hook (Fallback Decision Engine).                              *)
(***************************************************************************)
Finished(h, outcome, calls) ==
    [handlers[h] EXCEPT !.pc = "done", !.outcome = outcome, !.calls = calls]

providerCall(cfg) == IF needsProviders(cfg) THEN {"providers"} ELSE {}

\* the hook up to the answer of hasRequiredProviders and the parse of the
\* configured models: the invocation as it stands at its next await
StartResult(h, event, prov) ==
    LET sessionId == extractSessionId(event)
    IN IF event.type # "session.error" THEN Finished(h, "not_error", {})
       ELSE IF ~config.enabled THEN Finished(h, "disabled", {})
       ELSE IF ~isCreditExhausted(event, config) THEN Finished(h, "no_match", {})
       ELSE IF sessionId = <<>> THEN Finished(h, "no_session", {"log"})
       ELSE IF sessionId \in attempted
            THEN [Finished(h, "already_attempted", {}) EXCEPT !.sid = sessionId]
       ELSE IF ~hasRequiredProviders(prov, config)
            THEN [Finished(h, "unlicensed", {"providers", "log"})
                     EXCEPT !.sid = sessionId]
       ELSE IF ~parseModel(config.fallbackModel).ok
            THEN [Finished(h, "bad_fallback", providerCall(config) \cup {"log"})
                     EXCEPT !.sid = sessionId]
       ELSE [handlers[h] EXCEPT !.pc = "get", !.sid = sessionId,
                                !.calls = providerCall(config) \cup {"get"}]

\* the host can deliver the event to invocation slot h
CanStart(h, event) ==
    /\ started
    /\ h <= scope.handlers
    /\ extractSessionId(event) \in scope.sessions \cup {<<>>}
    /\ handlers[h].pc = "idle"
    /\ \A g \in Handlers : g < h => handlers[g].pc # "idle"

\* departure: the session is marked attempted as soon as the event is taken up
EventStart_Marks(h, event, prov) ==
    /\ CanStart(h, event)
    /\ handlers' = [handlers EXCEPT ![h] = StartResult(h, event, prov)]
    /\ attempted' = attempted \cup ({extractSessionId(event)} \ {<<>>})
    /\ UNCHANGED << scope, config, client, started, clock, timerDue,
                    stateData, disk, passes, promptCalls,
                    delivered, confirmCalls,
                    lastScanStart >>

EventStart(h, event, prov) ==
    /\ CanStart(h, event)
    /\ handlers' = [handlers EXCEPT ![h] = StartResult(h, event, prov)]
    /\ UNCHANGED << scope, config, client, started, clock, timerDue, attempted,
                    stateData, disk, passes, promptCalls,
                    delivered, confirmCalls,
                    lastScanStart >>

\* departure: the comparison of the providers is inverted
otherProvider_Same(sessionModel, primaryModel) ==
    /\ primaryModel.ok
    /\ sessionModel.ok
    /\ sessionModel.providerId # <<>>
    /\ sessionModel.providerId = primaryModel.providerId

\* the session is on another provider than the primary model
otherProvider(sessionModel, primaryModel) ==
    /\ primaryModel.ok
    /\ sessionModel.ok
    /\ sessionModel.providerId # <<>>
    /\ sessionModel.providerId # primaryModel.providerId

\* getSessionModel answered, then getLastUserMessage
EventSessionModel(h, sessionModel, msgAnswer) ==
    LET me == handlers[h]
        primaryModel == parseModel(config.primaryModel)
        last == getLastUserMessage(msgAnswer)
        asks == asksConfirm(config, client)
    IN /\ me.pc = "get"
       /\ IF otherProvider(sessionModel, primaryModel)
          THEN /\ handlers' = [handlers EXCEPT ![h] =
                                  [Finished(h, "other_provider", me.calls)
                                      EXCEPT !.sessionModel = sessionModel]]
               /\ UNCHANGED confirmCalls
          ELSE IF ~last.found
          THEN /\ handlers' = [handlers EXCEPT ![h] =
                                  [Finished(h, "no_message",
                                            me.calls \cup {"messages", "log"})
                                      EXCEPT !.sessionModel = sessionModel]]
               /\ UNCHANGED confirmCalls
          ELSE /\ handlers' = [handlers EXCEPT ![h] =
                                  [me EXCEPT !.pc = "confirm",
                                             !.sessionModel = sessionModel,
                                             !.parts = last.parts,
                                             !.calls = me.calls \cup {"messages"}
                                                 \cup (IF asks THEN {"confirm"} ELSE {})]]
               /\ confirmCalls' = IF asks
                                  THEN [confirmCalls EXCEPT ![me.sid] = @ + 1]
                                  ELSE confirmCalls
       /\ UNCHANGED << scope, config, client, started, clock, timerDue, attempted,
                       stateData, disk, passes, promptCalls,
                       delivered,
                    lastScanStart >>

\* confirmFallback returned; the session is marked attempted either way
EventConfirm(h, answer) ==
    LET me == handlers[h]
        shouldRetry == confirmFallback(config, client, answer)
    IN /\ me.pc = "confirm"
       /\ attempted' = attempted \cup {me.sid}
       /\ handlers' = [handlers EXCEPT ![h] =
                          IF shouldRetry
                          THEN [me EXCEPT !.pc = "persist", !.calls = @ \cup {"log"}]
                          ELSE Finished(h, "declined", me.calls \cup {"log"})]
       /\ UNCHANGED << scope, config, client, started, clock, timerDue, stateData,
                       disk, passes, promptCalls, delivered,
                       confirmCalls,
                    lastScanStart >>

\* departure: the two models of the record are swapped
FallbackRecord_Swapped(sessionModel, now, oid) ==
    LET primaryModel == parseModel(config.primaryModel)
        fallbackModel == parseModel(config.fallbackModel)
    IN NewRecord(now,
                 modelToString(fallbackModel),
                 modelToString(IF sessionModel.ok THEN sessionModel ELSE primaryModel),
                 oid)

\* the record the hook stores for the session
FallbackRecord(sessionModel, now, oid) ==
    LET primaryModel == parseModel(config.primaryModel)
        fallbackModel == parseModel(config.fallbackModel)
    IN NewRecord(now,
                 modelToString(IF sessionModel.ok THEN sessionModel ELSE primaryModel),
                 modelToString(fallbackModel), oid)

\* after the "Retrying" log: the record is put into state.stateData and
\* saveState starts (it awaits mkdir before it serializes)
EventPersist(h) ==
    LET me == handlers[h]
    IN /\ me.pc = "persist"
       /\ stateData' = [stateData EXCEPT !.sessions =
                           Put(@, me.sid,
                               FallbackRecord(me.sessionModel, clock,
                                              NextOid(stateData.sessions, me.sid)))]
       /\ handlers' = [handlers EXCEPT ![h] = [me EXCEPT !.pc = "save"]]
       /\ UNCHANGED << scope, config, client, started, clock, timerDue, attempted,
                       disk, passes, promptCalls, delivered,
                       confirmCalls,
                    lastScanStart >>

\* JSON.stringify(stateData): object identities are not written
Serialize(sd) ==
    [ sessions |-> [i \in 1..Len(sd.sessions) |->
                       [sid |-> sd.sessions[i].sid,
                        rec |-> [sd.sessions[i].rec EXCEPT !.oid = 0]]],
      lastCheckAt |-> sd.lastCheckAt ]

\* saveState writes the file; then the prompt is issued
EventSaveState(h) ==
    LET me == handlers[h]
        fallbackModel == parseModel(config.fallbackModel)
    IN /\ me.pc = "save"
       /\ disk' = Serialize(stateData)
       /\ promptCalls' = [promptCalls EXCEPT ![me.sid] = @ + 1]
       /\ handlers' = [handlers EXCEPT ![h] =
                          [me EXCEPT !.pc = "prompt",
                                     !.sent = [model |-> fallbackModel,
                                               parts |-> me.parts],
                                     !.calls = @ \cup {"prompt"}]]
       /\ UNCHANGED << scope, config, client, started, clock, timerDue, attempted,
                       stateData, passes, delivered,
                       confirmCalls,
                    lastScanStart >>

\* client.session.prompt answered: ok, or a throw that leaves the hook
EventPrompt(h, ok, toastOk) ==
    LET me == handlers[h]
        toast == IF config.toastOnFallback
                 THEN {"toast"} \cup (IF toastOk THEN {} ELSE {"log"})
                 ELSE {}
    IN /\ me.pc = "prompt"
       /\ IF ok
          THEN /\ delivered' = delivered \cup {me.sid}
               /\ handlers' = [handlers EXCEPT ![h] =
                                  Finished(h, "fell_back", me.calls \cup toast)]
          ELSE /\ handlers' = [handlers EXCEPT ![h] = Finished(h, "threw", me.calls)]
               /\ UNCHANGED delivered
       /\ UNCHANGED << scope, config, client, started, clock, timerDue, attempted,
                       stateData, disk, passes, promptCalls,
                       confirmCalls,
                    lastScanStart >>

\* the hook's promise has settled
EventReturn(h) ==
    /\ handlers[h].pc = "done"
    /\ handlers' = [handlers EXCEPT ![h] = IdleHandler]
    /\ UNCHANGED << scope, config, client, started, clock, timerDue, attempted,
                    stateData, disk, passes, promptCalls,
                    delivered, confirmCalls,
                    lastScanStart >>

(***************************************************************************)
(* runRestoreCheck (Restore Sweeper).                                      *)
(***************************************************************************)
\* departure: the age is compared with a day instead of the interval
Eligible_Day(rec, now, threshold) ==
    /\ rec.exhaustedAt # 0
    /\ ~(now - rec.exhaustedAt < DAY_MS)
    /\ parseModel(OrElse(rec.originalModel, config.primaryModel)).ok
    /\ parseModel(OrElse(rec.fallbackModel, config.fallbackModel)).ok

\* departure: the age of the record is not looked at
Eligible_Young(rec, now, threshold) ==
    /\ rec.exhaustedAt # 0
    /\ parseModel(OrElse(rec.originalModel, config.primaryModel)).ok
    /\ parseModel(OrElse(rec.fallbackModel, config.fallbackModel)).ok

\* the record passes the age check and both of its models parse
Eligible(rec, now, threshold) ==
    /\ rec.exhaustedAt # 0
    /\ ~(now - rec.exhaustedAt < threshold)
    /\ parseModel(OrElse(rec.originalModel, config.primaryModel)).ok
    /\ parseModel(OrElse(rec.fallbackModel, config.fallbackModel)).ok

\* index of the first entry from `from` on that the loop does not skip
NextEligible(entries, from, now, threshold) ==
    LET hits == {i \in from..Len(entries) : Eligible(entries[i].rec, now, threshold)}
    IN IF hits = {} THEN Len(entries) + 1
       ELSE CHOOSE i \in hits : \A j \in hits : i <= j

\* the pass at its next await: getSessionModel for the next record that is
\* not skipped, or saveState after the last one
Continue(pass, from, threshold) ==
    LET i == NextEligible(pass.entries, from, pass.now, threshold)
    IN IF i <= Len(pass.entries)
       THEN [pass EXCEPT !.pc = "get", !.idx = i, !.seen = @ \cup {i},
                         !.calls = @ \cup {"get"}]
       ELSE [pass EXCEPT !.pc = "save", !.idx = i]

\* a write to a field of the record object `oid`: it reaches stateData only
\* while that object is still the session's entry
WriteRecord_Detached(sd, sid, oid, fields) == sd

WriteRecord(sd, sid, oid, fields) ==
    LET m == sd.sessions
        Changed(r) == [f \in DOMAIN r |-> IF f \in DOMAIN fields THEN fields[f] ELSE r[f]]
    IN [sd EXCEPT !.sessions =
           [i \in 1..Len(m) |->
               IF m[i].sid = sid /\ m[i].rec.oid = oid
               THEN [sid |-> sid, rec |-> Changed(m[i].rec)]
               ELSE m[i]]]

\* runRestoreCheck up to its first await
PassBegin(p, intervalMs) ==
    LET now == clock
        threshold == thresholdOf(intervalMs)
        fresh == [IdlePass EXCEPT !.now = now]
    IN IF ~config.restoreEnabled
       THEN /\ passes' = [passes EXCEPT ![p] =
                             [fresh EXCEPT !.pc = "done", !.outcome = "disabled"]]
            /\ UNCHANGED << stateData, lastScanStart >>
       ELSE IF now - stateData.lastCheckAt < threshold
       THEN /\ passes' = [passes EXCEPT ![p] =
                             [fresh EXCEPT !.pc = "done", !.outcome = "rate_limited"]]
            /\ UNCHANGED << stateData, lastScanStart >>
       ELSE /\ stateData' = [stateData EXCEPT !.lastCheckAt = now]
            /\ lastScanStart' = now
            /\ passes' = [passes EXCEPT ![p] =
                             Continue([fresh EXCEPT !.entries = stateData.sessions,
                                                    !.outcome = "scanned"],
                                      1, threshold)]

\* the plugin function: scheduleRestoreCheck sets the timer and runs one
\* check at once, before the hooks are returned
Startup ==
    /\ ~started
    /\ started' = TRUE
    /\ IF config.restoreEnabled
       THEN /\ timerDue' = clock + timerDelay(intervalMsOf(config))
            /\ PassBegin(1, intervalMsOf(config))
       ELSE UNCHANGED << timerDue, passes, stateData, lastScanStart >>
    /\ UNCHANGED << scope, config, client, clock, attempted, disk, handlers, promptCalls, delivered, confirmCalls >>

\* the interval timer fires, at its due time or later
TimerFire(p) ==
    /\ started
    /\ timerDue # 0
    /\ clock >= timerDue
    /\ p <= scope.passes
    /\ passes[p].pc = "idle"
    /\ \A q \in Passes : q < p => passes[q].pc # "idle"
    /\ timerDue' = timerDue + timerDelay(intervalMsOf(config))
    /\ PassBegin(p, intervalMsOf(config))
    /\ UNCHANGED << scope, config, client, started, clock, attempted, disk,
                    handlers, promptCalls, delivered,
                    confirmCalls >>

\* getSessionModel answered for the record at idx
SweepSessionModel(p, sessionModel) ==
    LET me == passes[p]
        threshold == thresholdOf(intervalMsOf(config))
        entry == me.entries[me.idx]
        originalModel == parseModel(OrElse(entry.rec.originalModel, config.primaryModel))
        fallbackModel == parseModel(OrElse(entry.rec.fallbackModel, config.fallbackModel))
        Restored == [restoredAt |-> me.now]
    IN /\ me.pc = "get"
       /\ IF sessionModel.ok /\ modelsEqual(sessionModel, originalModel)
          THEN /\ stateData' = WriteRecord(stateData, entry.sid, entry.rec.oid, Restored)
               /\ passes' = [passes EXCEPT ![p] = Continue(me, me.idx + 1, threshold)]
          ELSE IF sessionModel.ok /\ ~modelsEqual(sessionModel, fallbackModel)
          THEN /\ passes' = [passes EXCEPT ![p] = Continue(me, me.idx + 1, threshold)]
               /\ UNCHANGED stateData
          ELSE /\ passes' = [passes EXCEPT ![p] =
                                [me EXCEPT !.pc = "update",
                                           !.target = originalModel,
                                           !.calls = @ \cup {"update"}]]
               /\ UNCHANGED stateData
       /\ UNCHANGED << scope, config, client, started, clock, timerDue, attempted,
                       disk, handlers, promptCalls,
                       delivered, confirmCalls,
                    lastScanStart >>

\* setSessionModel answered (ok: client.session.update did not throw)
SweepUpdate(p, ok, toastOk) ==
    LET me == passes[p]
        threshold == thresholdOf(intervalMsOf(config))
        entry == me.entries[me.idx]
        Attempted == IF ok
                     THEN [lastRestoreAttemptAt |-> me.now, restoredAt |-> me.now]
                     ELSE [lastRestoreAttemptAt |-> me.now]
        after == IF ok
                 THEN (IF config.toastOnRestore
                       THEN {"toast"} \cup (IF toastOk THEN {} ELSE {"log"})
                       ELSE {})
                 ELSE {"log"}
    IN /\ me.pc = "update"
       /\ stateData' = WriteRecord(stateData, entry.sid, entry.rec.oid, Attempted)
       /\ passes' = [passes EXCEPT ![p] =
                        Continue([me EXCEPT !.calls = @ \cup after], me.idx + 1, threshold)]
       /\ UNCHANGED << scope, config, client, started, clock, timerDue, attempted,
                       disk, handlers, promptCalls, delivered,
                       confirmCalls,
                    lastScanStart >>

\* departure: the pass ends without writing the file
SweepSaveState_Skip(p) ==
    LET me == passes[p]
    IN /\ me.pc = "save"
       /\ passes' = [passes EXCEPT ![p] = [me EXCEPT !.pc = "done"]]
       /\ UNCHANGED << scope, config, client, started, clock, timerDue, attempted,
                       stateData, disk, handlers, promptCalls,
                       delivered, confirmCalls,
                    lastScanStart >>

\* saveState at the end of the pass writes the file
SweepSaveState(p) ==
    LET me == passes[p]
    IN /\ me.pc = "save"
       /\ disk' = Serialize(stateData)
       /\ passes' = [passes EXCEPT ![p] = [me EXCEPT !.pc = "done"]]
       /\ UNCHANGED << scope, config, client, started, clock, timerDue, attempted,
                       stateData, handlers, promptCalls,
                       delivered, confirmCalls,
                    lastScanStart >>

\* departure: the end of a pass empties attemptedSessions
SweepReturn_Forget(p) ==
    /\ passes[p].pc = "done"
    /\ passes' = [passes EXCEPT ![p] = IdlePass]
    /\ attempted' = {}
    /\ UNCHANGED << scope, config, client, started, clock, timerDue,
                    stateData, disk, handlers, promptCalls,
                    delivered, confirmCalls,
                    lastScanStart >>

\* the promise of runRestoreCheck has settled
SweepReturn(p) ==
    /\ passes[p].pc = "done"
    /\ passes' = [passes EXCEPT ![p] = IdlePass]
    /\ UNCHANGED << scope, config, client, started, clock, timerDue, attempted,
                    stateData, disk, handlers, promptCalls,
                    delivered, confirmCalls,
                    lastScanStart >>

(***************************************************************************)
(* Specification.                                                          *)
(***************************************************************************)
Next ==
    \/ Startup
    \/ Tick
    \/ \E h \in Handlers, e \in Events, prov \in ProviderAnswersFor(config) :
           EventStart(h, e, prov)
    \/ \E h \in Handlers, model \in SessionAnswers, ans \in MessageAnswers :
           EventSessionModel(h, model, ans)
    \/ \E h \in Handlers, ans \in ConfirmAnswers : EventConfirm(h, ans)
    \/ \E h \in Handlers : EventPersist(h)
    \/ \E h \in Handlers : EventSaveState(h)
    \/ \E h \in Handlers, ok \in BOOLEAN, toastOk \in BOOLEAN : EventPrompt(h, ok, toastOk)
    \/ \E h \in Handlers : EventReturn(h)
    \/ \E p \in Passes : TimerFire(p)
    \/ \E p \in Passes, model \in SessionAnswers : SweepSessionModel(p, model)
    \/ \E p \in Passes, ok \in BOOLEAN, toastOk \in BOOLEAN : SweepUpdate(p, ok, toastOk)
    \/ \E p \in Passes : SweepSaveState(p)
    \/ \E p \in Passes : SweepReturn(p)

Spec == Init /\ [][Next]_vars

(***************************************************************************)
(* The plugin with a host that lets restores succeed: the session stays on *)
(* the recorded fallback model until a pass has restored it, every update  *)
(* call succeeds, time passes, the timer fires and host calls return.      *)
(***************************************************************************)
\* one hook invocation and the passes of two instants on a fresh state file,
\* and the passes alone on a file with a record
LiveSetups ==
    { Setup(c, WithConfirm, EmptyFile, Scope(1, 1, 1, {S1})) :
        c \in {BaseConfig, [BaseConfig EXCEPT !.primaryModel = Undef]} }
    \cup
    { Setup(BaseConfig, WithConfirm, FileWithRecord, Scope(0, 1, 1, {S1})) }

LiveInit == InitFrom(LiveSetups)

\* what getSessionModel answers to pass p for such a session
StaysOnFallback(p) ==
    LET entry == passes[p].entries[passes[p].idx]
        restored == \E i \in 1..Len(stateData.sessions) :
                        /\ stateData.sessions[i].sid = entry.sid
                        /\ stateData.sessions[i].rec.restoredAt # 0
    IN IF restored
       THEN parseModel(OrElse(entry.rec.originalModel, config.primaryModel))
       ELSE parseModel(OrElse(entry.rec.fallbackModel, config.fallbackModel))

SweepStep(p) ==
    \/ (passes[p].pc = "get" /\ SweepSessionModel(p, StaysOnFallback(p)))
    \/ \E toastOk \in BOOLEAN : SweepUpdate(p, TRUE, toastOk)
    \/ SweepSaveState(p)
    \/ SweepReturn(p)

LiveNext ==
    \/ Startup
    \/ Tick
    \/ \E h \in Handlers, e \in Events, prov \in ProviderAnswersFor(config) :
           EventStart(h, e, prov)
    \/ \E h \in Handlers, model \in SessionAnswers, ans \in MessageAnswers :
           EventSessionModel(h, model, ans)
    \/ \E h \in Handlers, ans \in ConfirmAnswers : EventConfirm(h, ans)
    \/ \E h \in Handlers : EventPersist(h)
    \/ \E h \in Handlers : EventSaveState(h)
    \/ \E h \in Handlers, ok \in BOOLEAN, toastOk \in BOOLEAN : EventPrompt(h, ok, toastOk)
    \/ \E h \in Handlers : EventReturn(h)
    \/ \E p \in Passes : TimerFire(p)
    \/ \E p \in Passes : SweepStep(p)

LiveSpec ==
    /\ LiveInit
    /\ [][LiveNext]_vars
    /\ WF_vars(Startup)
    /\ WF_vars(Tick)
    /\ \A p \in Passes : WF_vars(TimerFire(p)) /\ WF_vars(SweepStep(p))

(***************************************************************************)
(* Helpers of the properties.                                              *)
(***************************************************************************)
\* a record of session s that the event hook wrote in this process (the
\* records found at start are older than the start)
EngineRecordIn(sd, s) ==
    \E i \in 1..Len(sd.sessions) :
        sd.sessions[i].sid = s /\ sd.sessions[i].rec.exhaustedAt >= ClockStart

\* pass p issues client.session.update for session s in this step
IssuesUpdate(p, s) ==
    /\ passes[p].pc # "update"
    /\ passes'[p].pc = "update"
    /\ passes'[p].entries[passes'[p].idx].sid = s

(***************************************************************************)
(* C1: within one process, at most one fallback offer is made per session, *)
(* whatever the interleaving of hook invocations: showConfirm is called at *)
(* most once and the replay prompt is issued at most once for the session. *)
(* Two invocations for one session that overlap between the check of       *)
(* attemptedSessions and its update both offer.                            *)
(***************************************************************************)
C1_AtMostOneOffer ==
    \A s \in Sessions : promptCalls[s] <= 1 /\ confirmCalls[s] <= 1

(***************************************************************************)
(* C2: the promise of the event hook never rejects, whichever external     *)
(* call fails.  client.session.prompt is awaited outside any try block.    *)
(***************************************************************************)
C2_HookNeverThrows ==
    \A h \in Handlers : handlers[h].outcome # "threw"

(***************************************************************************)
(* C3: a record written by the event hook exists, in memory or in the      *)
(* state file, only if the replay prompt of that session was accepted (the *)
(* record is stored after the prompt).  The hook stores and saves the      *)
(* record before it issues the prompt.                                     *)
(***************************************************************************)
C3_RecordOnlyAfterPrompt ==
    \A s \in Sessions :
        (EngineRecordIn(stateData, s) \/ EngineRecordIn(disk, s)) => s \in delivered

(***************************************************************************)
(* C4: once a record has restoredAt set, a later pass issues no update     *)
(* call for its session and changes no field of it.  The pass never reads  *)
(* restoredAt, so a restored record is processed again by every pass.      *)
(***************************************************************************)
C4_RestoredRecordInert ==
    [][ \A i \in 1..Len(stateData.sessions), p \in Passes :
          LET e == stateData.sessions[i]
              BeganAfter ==
                  /\ passes'[p].pc # "idle"
                  /\ passes'[p].now > e.rec.restoredAt
                  /\ \E k \in 1..Len(passes'[p].entries) :
                        /\ passes'[p].entries[k].sid = e.sid
                        /\ passes'[p].entries[k].rec.restoredAt # 0
          IN (e.rec.restoredAt # 0 /\ BeganAfter) =>
                /\ ~IssuesUpdate(p, e.sid)
                /\ (passes'[p] # passes[p] /\ passes[p].pc # "idle") =>
                       stateData'.sessions[i] = e ]_vars

(***************************************************************************)
(* The three signals of an event as the specification states them.         *)
(***************************************************************************)
StatusSignal(e) ==
    /\ extractStatus(e).finite
    /\ \E i \in 1..Len(config.onStatus) :
           /\ JsNumber(config.onStatus[i]).finite
           /\ JsNumber(config.onStatus[i]).n = extractStatus(e).n

CodeSignal(e) ==
    /\ extractCode(e) # <<>>
    /\ \E i \in 1..Len(config.onErrorCodes) :
           ToLowerCase(config.onErrorCodes[i]) = ToLowerCase(extractCode(e))

TextSignal(e) ==
    \E i \in 1..Len(config.onMessageMatches) :
        Includes(ToLowerCase(extractText(e)), ToLowerCase(config.onMessageMatches[i]))

\* the hook ignores the event: another type, plugin disabled, no signal
Ignorable(e) ==
    \/ e.type # "session.error"
    \/ ~config.enabled
    \/ ~(StatusSignal(e) \/ CodeSignal(e) \/ TextSignal(e))

\* invocation h starts in this step
Starts(h) == handlers[h].pc = "idle" /\ handlers'[h].pc # "idle"

\* the step leaves the shared state of the plugin and its calls as they were
NoEffect ==
    UNCHANGED << attempted, stateData, disk, promptCalls, confirmCalls, delivered >>

(***************************************************************************)
(* C5: for an event of another type, with the plugin disabled, or with     *)
(* none of the three signals matching the configured rules, the hook ends  *)
(* at once: it makes no host call and changes neither attemptedSessions    *)
(* nor the persisted state.  The first step of an invocation changes the   *)
(* invocation only, and for every ignorable event the host can deliver it  *)
(* leaves the invocation finished with no call made.                       *)
(***************************************************************************)
C5_StartResults ==
    \A h \in Handlers, e \in Events :
        (CanStart(h, e) /\ Ignorable(e)) =>
            \A prov \in ProviderAnswersFor(config) :
                /\ StartResult(h, e, prov).pc = "done"
                /\ StartResult(h, e, prov).calls = {}

C5_NoActionWithoutSignal ==
    /\ [][ \A h \in Handlers : Starts(h) => NoEffect ]_vars
    /\ []C5_StartResults

C5_Witness ==
    \E h \in Handlers : handlers[h].pc = "done" /\ handlers[h].outcome = "no_match"

(***************************************************************************)
(* C6: end-to-end fallback.  When the configured fallback model is a       *)
(* provider/model string with both parts present, getSessionModel reports  *)
(* the primary model, the last user message has parts and confirmation is  *)
(* off, the invocation goes on to the prompt; once the host accepted it,   *)
(* the prompt carried the configured fallback model and the parts of that  *)
(* message for the same session (one prompt when invocations do not        *)
(* overlap), the record of the session in memory and in the state file     *)
(* holds the configured fallbackModel string, and the toast was shown when *)
(* toastOnFallback is on.                                                  *)
(***************************************************************************)
\* the most recent user-authored message of an answer
LastUserIndex(answer) ==
    LET users == {i \in 1..Len(answer.msgs) : isUser(answer.msgs[i])}
    IN IF users = {} THEN 0 ELSE CHOOSE i \in users : \A j \in users : j <= i

LastUserHasParts(answer) ==
    /\ answer.ok
    /\ LastUserIndex(answer) # 0
    /\ answer.msgs[LastUserIndex(answer)].parts # <<>>

RecordOf(sd, s) == sd.sessions[KeyIndex(sd.sessions, s)].rec

\* a "provider/model" string with both parts present
WellFormed(value) ==
    /\ value.t = "str"
    /\ \E i \in 2..(Len(value.s) - 1) :
           value.s[i] = "/" /\ \A j \in 1..(i - 1) : value.s[j] # "/"

OnPrimaryWithMessage(me) ==
    /\ WellFormed(config.fallbackModel)
    /\ me.sessionModel = parseModel(config.primaryModel)
    /\ me.parts # <<>>
    /\ ~config.confirmOnFallback

C6_Steps ==
    \A h \in Handlers :
        (handlers[h].pc = "get" /\ handlers'[h] # handlers[h]) =>
            \A answer \in MessageAnswers :
                ( /\ EventSessionModel(h, parseModel(config.primaryModel), answer)
                  /\ LastUserHasParts(answer)
                  /\ ~config.confirmOnFallback ) =>
                    /\ handlers'[h].pc = "confirm"
                    /\ handlers'[h].parts = answer.msgs[LastUserIndex(answer)].parts

C6_Outcome ==
    \A h \in Handlers :
        LET me == handlers[h]
        IN (me.pc = "done" /\ me.sid # <<>> /\ OnPrimaryWithMessage(me)) =>
              /\ me.outcome \in {"fell_back", "threw"}
              /\ me.outcome = "fell_back" =>
                    /\ me.sent = [model |-> parseModel(config.fallbackModel),
                                  parts |-> me.parts]
                    /\ "prompt" \in me.calls
                    /\ me.sid \in delivered
                    /\ scope.handlers = 1 => promptCalls[me.sid] = 1
                    /\ HasKey(stateData.sessions, me.sid)
                    /\ RecordOf(stateData, me.sid).fallbackModel = config.fallbackModel
                    /\ HasKey(disk.sessions, me.sid)
                    /\ RecordOf(disk, me.sid).fallbackModel = config.fallbackModel
                    /\ config.toastOnFallback => "toast" \in me.calls

C6_EndToEndFallback == [][C6_Steps]_vars /\ []C6_Outcome

C6_Witness ==
    \E h \in Handlers :
        /\ handlers[h].pc = "done"
        /\ handlers[h].outcome = "fell_back"
        /\ OnPrimaryWithMessage(handlers[h])
        /\ config.toastOnFallback

(***************************************************************************)
(* Helpers of the sweep properties.                                        *)
(***************************************************************************)
\* pass p takes a step from the given position
Moves(p, pc) == passes[p].pc = pc /\ passes'[p] # passes[p]

\* the entry pass p is working on
Current(p) == passes[p].entries[passes[p].idx]

\* the record object of entry e is still the session's entry in stateData
Attached(i, e) ==
    /\ stateData.sessions[i].sid = e.sid
    /\ stateData.sessions[i].rec.oid = e.rec.oid

\* the age condition of the sweep as the specification states it
OldEnough(rec, now) ==
    /\ rec.exhaustedAt # 0
    /\ now - rec.exhaustedAt >= intervalMsOf(config)
    /\ parseModel(rec.originalModel).ok
    /\ parseModel(rec.fallbackModel).ok

\* a pass that scanned asked for the session model of every old enough record
ReachesEveryRecord ==
    \A p \in Passes :
        (passes[p].pc = "done" /\ passes[p].outcome = "scanned") =>
            \A i \in 1..Len(passes[p].entries) :
                OldEnough(passes[p].entries[i].rec, passes[p].now) => i \in passes[p].seen

\* the session is reported on the recorded fallback model: the update call
\* is issued with the recorded original model
IssuesRestore(distinctOnly) ==
    \A p \in Passes :
        Moves(p, "get") =>
            LET original == parseModel(Current(p).rec.originalModel)
                fallback == parseModel(Current(p).rec.fallbackModel)
            IN ( /\ original.ok
                 /\ fallback.ok
                 /\ distinctOnly => original # fallback
                 /\ SweepSessionModel(p, fallback) ) =>
                    /\ passes'[p].pc = "update"
                    /\ passes'[p].idx = passes[p].idx
                    /\ passes'[p].target = original

\* the update call succeeded: restoredAt of the record is the pass time
StampsRestore ==
    \A p \in Passes :
        Moves(p, "update") =>
            \A toastOk \in BOOLEAN :
                SweepUpdate(p, TRUE, toastOk) =>
                    \A i \in 1..Len(stateData.sessions) :
                        Attached(i, Current(p)) =>
                            stateData'.sessions[i].rec.restoredAt = passes[p].now

(***************************************************************************)
(* C7 as stated: for every old enough record whose session is on the       *)
(* recorded fallback model, a pass that is not rate-limited invokes the    *)
(* model-update call with the recorded original model and, when the call   *)
(* succeeds, sets restoredAt to the pass time.                             *)
(***************************************************************************)
C7_RestoreEveryRecord ==
    /\ [][IssuesRestore(FALSE) /\ StampsRestore]_vars
    /\ []ReachesEveryRecord

(***************************************************************************)
(* C7, amended: the same for every such record whose recorded original     *)
(* model differs from its recorded fallback model.  restoredAt is written  *)
(* to the record object the pass read, which is the session's entry unless *)
(* the hook has replaced it since the pass began.                          *)
(***************************************************************************)
C7_EndToEndRestore ==
    /\ [][IssuesRestore(TRUE) /\ StampsRestore]_vars
    /\ []ReachesEveryRecord

C7_Witness ==
    \E p \in Passes :
        /\ passes[p].outcome = "scanned"
        /\ "update" \in passes[p].calls
        /\ \E i \in 1..Len(stateData.sessions) :
              /\ stateData.sessions[i].rec.restoredAt = passes[p].now
              /\ stateData.sessions[i].rec.lastRestoreAttemptAt = passes[p].now
              /\ stateData.sessions[i].rec.originalModel
                     # stateData.sessions[i].rec.fallbackModel

(***************************************************************************)
(* C8: restore idempotence.  For an old enough record whose session is     *)
(* reported on the recorded original model, the pass sets restoredAt of    *)
(* the record to the pass time, issues no model-update call for it and     *)
(* leaves lastRestoreAttemptAt as it was.                                  *)
(***************************************************************************)
C8_RestoreIdempotence ==
    [][ \A p \in Passes :
          Moves(p, "get") =>
            LET original == parseModel(Current(p).rec.originalModel)
            IN ( /\ original.ok
                 /\ OldEnough(Current(p).rec, passes[p].now)
                 /\ SweepSessionModel(p, original) ) =>
                  /\ passes'[p].calls \ passes[p].calls \subseteq {"get"}
                  /\ passes'[p].pc = "get" => passes'[p].idx > passes[p].idx
                  /\ passes'[p].pc \in {"get", "save"}
                  /\ \A i \in 1..Len(stateData.sessions) :
                        Attached(i, Current(p)) =>
                            /\ stateData'.sessions[i].rec.restoredAt = passes[p].now
                            /\ stateData'.sessions[i].rec.lastRestoreAttemptAt
                                   = stateData.sessions[i].rec.lastRestoreAttemptAt ]_vars

C8_Witness ==
    \E p \in Passes :
        /\ passes[p].pc = "done"
        /\ passes[p].outcome = "scanned"
        /\ "update" \notin passes[p].calls
        /\ \E i \in 1..Len(stateData.sessions) :
              /\ stateData.sessions[i].rec.restoredAt = passes[p].now
              /\ stateData.sessions[i].rec.lastRestoreAttemptAt = 0

(***************************************************************************)
(* Helpers of the rate limit.                                              *)
(***************************************************************************)
\* sweep invocation p starts in this step
Begins(p) == passes[p].pc = "idle" /\ passes'[p].pc # "idle"

\* the invocation ends at once: no host call, no change of state
NoOp(p) ==
    /\ passes'[p].pc = "done"
    /\ passes'[p].calls = {}
    /\ passes'[p].seen = {}
    /\ UNCHANGED << stateData, disk >>

(***************************************************************************)
(* C9 as stated: of any two sweep invocations that start less than one     *)
(* interval apart, the second makes no host API call and changes no state. *)
(***************************************************************************)
C9_SecondOfAnyTwo ==
    [][ \A p \in Passes, q \in Passes :
          ( /\ Begins(p)
            /\ q # p
            /\ passes[q].pc # "idle"
            /\ clock - passes[q].now < intervalMsOf(config) ) => NoOp(p) ]_vars

(***************************************************************************)
(* C9, amended: a sweep invocation that starts less than one interval      *)
(* after the start of an invocation that scanned makes no host API call    *)
(* and changes no state, also while that invocation is still in progress.  *)
(***************************************************************************)
C9_RateLimit ==
    [][ \A p \in Passes :
          ( /\ Begins(p)
            /\ lastScanStart # 0
            /\ clock - lastScanStart < intervalMsOf(config) ) =>
                /\ NoOp(p)
                /\ passes'[p].outcome = "rate_limited" ]_vars

C9_Witness ==
    \E p \in Passes, q \in Passes :
        /\ passes[p].outcome = "rate_limited"
        /\ passes[q].outcome = "scanned"
        /\ passes[q].pc \in {"get", "update", "save"}
        /\ passes[q].now <= passes[p].now
        /\ passes[p].now - passes[q].now < intervalMsOf(config)

(***************************************************************************)
(* C10: licensing gate.  With required provider ids configured, when the   *)
(* provider listing fails or is empty, or a required id is absent from it  *)
(* under case-insensitive comparison, the invocation ends at its first     *)
(* step: it never reaches the prompt, the record or attemptedSessions.     *)
(***************************************************************************)
LicenseFails(prov) ==
    /\ Len(config.requireProviders) # 0
    /\ \/ ~prov.ok
       \/ Len(prov.ids) = 0
       \/ \E i \in 1..Len(config.requireProviders) :
             \A j \in 1..Len(prov.ids) :
                 ToLowerCase(config.requireProviders[i]) # ToLowerCase(prov.ids[j])

C10_StartResults ==
    \A h \in Handlers, e \in Events :
        CanStart(h, e) =>
            \A prov \in ProviderAnswers :
                LicenseFails(prov) =>
                    /\ StartResult(h, e, prov).pc = "done"
                    /\ StartResult(h, e, prov).calls \subseteq {"providers", "log"}

C10_LicensingGate ==
    /\ [][ \A h \in Handlers :
             (Starts(h) /\ handlers'[h].outcome = "unlicensed") => NoEffect ]_vars
    /\ []C10_StartResults

C10_Witness ==
    \E h \in Handlers :
        /\ handlers[h].pc = "done"
        /\ handlers[h].outcome = "unlicensed"
        /\ handlers[h].sid \notin attempted
        /\ promptCalls[handlers[h].sid] = 0

(***************************************************************************)
(* Helpers of the hook properties.                                         *)
(***************************************************************************)
\* invocation h takes a step from the given position
Steps(h, pc) == handlers[h].pc = pc /\ handlers'[h] # handlers[h]

(***************************************************************************)
(* C11: primary-provider gate.  When the primary model parses and          *)
(* getSessionModel reports a model of another provider, the invocation     *)
(* ends there: no prompt is sent, no record is written, and the session is *)
(* not marked attempted.  A session on the fallback model of another       *)
(* provider is such a session.                                             *)
(***************************************************************************)
C11_PrimaryProviderGate ==
    [][ \A h \in Handlers :
          Steps(h, "get") =>
            \A sessionModel \in SessionAnswers, answer \in MessageAnswers :
                ( /\ EventSessionModel(h, sessionModel, answer)
                  /\ parseModel(config.primaryModel).ok
                  /\ sessionModel.ok
                  /\ sessionModel.providerId
                         # parseModel(config.primaryModel).providerId ) =>
                    /\ handlers'[h].pc = "done"
                    /\ "prompt" \notin handlers'[h].calls
                    /\ "confirm" \notin handlers'[h].calls
                    /\ NoEffect ]_vars

C11_Witness ==
    \E h \in Handlers :
        /\ handlers[h].pc = "done"
        /\ handlers[h].outcome = "other_provider"
        /\ handlers[h].sessionModel = parseModel(config.fallbackModel)
        /\ promptCalls[handlers[h].sid] = 0
        /\ ~HasKey(stateData.sessions, handlers[h].sid)

(***************************************************************************)
(* C12: declined confirmation.  With confirmOnFallback on and              *)
(* client.tui.showConfirm present, a declined dialog ends the invocation   *)
(* with the session added to attemptedSessions, no prompt sent and no      *)
(* record written.  With confirmation off or showConfirm missing the       *)
(* invocation issues no confirm request and goes on to the fallback        *)
(* whatever the host would have answered.                                  *)
(***************************************************************************)
Asked == config.confirmOnFallback /\ client.showConfirm

C12_Declined ==
    \A h \in Handlers :
        Steps(h, "confirm") =>
            \A answer \in ConfirmAnswers :
                EventConfirm(h, answer) =>
                    /\ handlers[h].sid \in attempted'
                    /\ (Asked /\ answer = "no") =>
                          /\ handlers'[h].pc = "done"
                          /\ "prompt" \notin handlers'[h].calls
                          /\ UNCHANGED << stateData, disk, promptCalls, delivered >>
                    /\ ~Asked => handlers'[h].pc = "persist"

C12_NotAsked ==
    \A h \in Handlers :
        (Steps(h, "get") /\ handlers'[h].pc = "confirm" /\ ~Asked) =>
            /\ "confirm" \notin handlers'[h].calls
            /\ UNCHANGED confirmCalls

C12_DeclinedConfirmation == [][C12_Declined /\ C12_NotAsked]_vars

C12_Witness ==
    \E h \in Handlers :
        /\ handlers[h].pc = "done"
        /\ handlers[h].outcome = "declined"
        /\ handlers[h].sid \in attempted
        /\ promptCalls[handlers[h].sid] = 0
        /\ ~HasKey(stateData.sessions, handlers[h].sid)

(***************************************************************************)
(* C13: model-string round trip.  For every invocation that has issued     *)
(* its prompt, the fallbackModel stored in the record of the session       *)
(* parses back to the ModelRef the prompt carried, equal on providerId and *)
(* modelId.                                                                *)
(***************************************************************************)
C13_ModelRoundTrip ==
    \A h \in Handlers :
        ( /\ handlers[h].pc \in {"prompt", "done"}
          /\ "prompt" \in handlers[h].calls
          /\ HasKey(stateData.sessions, handlers[h].sid) ) =>
            parseModel(RecordOf(stateData, handlers[h].sid).fallbackModel)
                = handlers[h].sent.model

(***************************************************************************)
(* C14: records are never deleted.  No step removes a session id from      *)
(* state.stateData.sessions or from the state file, so a restored record   *)
(* stays in the store.                                                     *)
(***************************************************************************)
C14_RecordsNeverDeleted ==
    [][ /\ Keys(stateData.sessions) \subseteq Keys(stateData'.sessions)
        /\ Keys(disk.sessions) \subseteq Keys(disk'.sessions) ]_vars

C14_Witness ==
    /\ Len(stateData.sessions) = 2
    /\ \E i \in 1..Len(stateData.sessions) :
          /\ stateData.sessions[i].rec.exhaustedAt >= ClockStart
          /\ stateData.sessions[3 - i].rec.restoredAt # 0
    /\ disk = Serialize(stateData)

(***************************************************************************)
(* C15: eventual restore.  With restore enabled, the timer firing and the  *)
(* session staying on the recorded fallback model while updates succeed,   *)
(* every record in the fallen-back state (exhaustedAt set, restoredAt      *)
(* unset) that is one interval old at an instant the run follows           *)
(* eventually has restoredAt set.                                          *)
(***************************************************************************)
FallenBack(s) ==
    /\ config.restoreEnabled
    /\ HasKey(stateData.sessions, s)
    /\ RecordOf(stateData, s).exhaustedAt # 0
    /\ RecordOf(stateData, s).restoredAt = 0
    /\ RecordOf(stateData, s).exhaustedAt + intervalMsOf(config) <= Instant(scope.ticks)

Restored(s) ==
    /\ HasKey(stateData.sessions, s)
    /\ RecordOf(stateData, s).restoredAt # 0

C15_EventualRestore == \A s \in Sessions : FallenBack(s) ~> Restored(s)

(***************************************************************************)
(* C16: sweep/engine interleaving on one session.  Whenever a pass has     *)
(* switched a session to its original model, or has found it there, the    *)
(* record stored for that session at that moment has restoredAt set to the *)
(* pass time, also when the hook has replaced the record while the pass    *)
(* was waiting for the host.                                               *)
(***************************************************************************)
C16_NoLostUpdate ==
    [][ \A p \in Passes :
          LET sid == Current(p).sid
              original == parseModel(OrElse(Current(p).rec.originalModel,
                                            config.primaryModel))
              switched == /\ Moves(p, "update")
                          /\ \E toastOk \in BOOLEAN : SweepUpdate(p, TRUE, toastOk)
              found == /\ Moves(p, "get")
                       /\ SweepSessionModel(p, original)
          IN (passes[p].pc \in {"get", "update"} /\ (switched \/ found)) =>
                /\ HasKey(stateData'.sessions, sid)
                /\ RecordOf(stateData', sid).restoredAt = passes[p].now ]_vars

(***************************************************************************)
(* C17: replay source.  When the invocation has passed the provider gate   *)
(* and client.session.messages has answered, the message to replay is the  *)
(* most recent user-authored message of the history; when there is none,   *)
(* or when that message has no content parts, the invocation ends without  *)
(* a prompt and never takes the parts of an older user message.            *)
(***************************************************************************)
C17_ReplaySource ==
    [][ \A h \in Handlers :
          Steps(h, "get") =>
            \A sessionModel \in SessionAnswers, answer \in MessageAnswers :
                ( /\ EventSessionModel(h, sessionModel, answer)
                  /\ ~otherProvider(sessionModel, parseModel(config.primaryModel)) ) =>
                    IF LastUserHasParts(answer)
                    THEN /\ handlers'[h].pc = "confirm"
                         /\ handlers'[h].parts
                                = answer.msgs[LastUserIndex(answer)].parts
                    ELSE /\ handlers'[h].pc = "done"
                         /\ handlers'[h].outcome = "no_message"
                         /\ "prompt" \notin handlers'[h].calls
                         /\ NoEffect ]_vars

(***************************************************************************)
(* C18: retry at the fixed interval.  A timer tick that fires at its       *)
(* scheduled time, while no other pass is in progress and after a scan     *)
(* that began at an earlier instant, is never stopped by the rate limit:   *)
(* it scans the stored records, so a record whose restore attempt failed   *)
(* in the previous pass is taken up again one interval after the previous  *)
(* tick of the schedule.                                                   *)
(***************************************************************************)
OnSchedule(p) ==
    /\ Begins(p)
    /\ timerDue' # timerDue
    /\ clock = timerDue
    /\ config.restoreEnabled
    /\ lastScanStart < clock
    /\ \A q \in Passes : q # p => passes[q].pc = "idle"

C18_RetryAtFixedInterval ==
    [][ \A p \in Passes :
          OnSchedule(p) =>
             /\ passes'[p].outcome = "scanned"
             /\ passes'[p].entries = stateData.sessions
             /\ stateData'.lastCheckAt = clock ]_vars

(***************************************************************************)
(* C19: a foreign model is left alone.  When getSessionModel reports, for  *)
(* an eligible record, a model that is neither the record's original nor   *)
(* its fallback model, the pass issues no update call for the session and  *)
(* changes no field of any record: it goes on to the next record.          *)
(***************************************************************************)
OriginalOf(rec) == parseModel(OrElse(rec.originalModel, config.primaryModel))

FallbackOf(rec) == parseModel(OrElse(rec.fallbackModel, config.fallbackModel))

C19_ForeignModelLeftAlone ==
    [][ \A p \in Passes :
          Moves(p, "get") =>
            \A sessionModel \in SessionAnswers :
                ( /\ sessionModel.ok
                  /\ sessionModel # OriginalOf(Current(p).rec)
                  /\ sessionModel # FallbackOf(Current(p).rec)
                  /\ SweepSessionModel(p, sessionModel) ) =>
                    /\ UNCHANGED << stateData, disk >>
                    /\ passes'[p].pc \in {"get", "save"}
                    /\ passes'[p].idx > passes[p].idx
                    /\ "update" \in passes'[p].calls => "update" \in passes[p].calls
                    /\ passes'[p].target = passes[p].target ]_vars

C19_Witness ==
    \E p \in Passes :
        /\ passes[p].pc = "save"
        /\ passes[p].outcome = "scanned"
        /\ passes[p].seen = {1}
        /\ "update" \notin passes[p].calls
        /\ Len(stateData.sessions) >= 1
        /\ Attached(1, passes[p].entries[1])
        /\ stateData.sessions[1].rec.restoredAt = 0
        /\ stateData.sessions[1].rec.lastRestoreAttemptAt = 0

(***************************************************************************)
(* C20: failed restore.  When the session is reported on the record's      *)
(* fallback model, or its model is unknown, the pass issues the update     *)
(* call with the record's original model.  Whatever the call answers, the  *)
(* record the pass read gets lastRestoreAttemptAt = the pass time; when    *)
(* the call fails, nothing else changes in it (restoredAt stays as it      *)
(* was), no other record changes, and the record is still eligible.  The   *)
(* pass goes on: when it ends, it has asked for the session model of every *)
(* eligible record of its snapshot.                                        *)
(***************************************************************************)
C20_Attempts ==
    \A p \in Passes :
        Moves(p, "get") =>
            \A sessionModel \in SessionAnswers :
                ( /\ ~sessionModel.ok \/ sessionModel = FallbackOf(Current(p).rec)
                  /\ sessionModel # OriginalOf(Current(p).rec)
                  /\ SweepSessionModel(p, sessionModel) ) =>
                    /\ passes'[p].pc = "update"
                    /\ passes'[p].idx = passes[p].idx
                    /\ passes'[p].target = OriginalOf(Current(p).rec)
                    /\ "update" \in passes'[p].calls
                    /\ UNCHANGED stateData

C20_Stamps ==
    \A p \in Passes :
        Moves(p, "update") =>
            \A ok \in BOOLEAN, toastOk \in BOOLEAN :
                SweepUpdate(p, ok, toastOk) =>
                    /\ passes'[p].pc \in {"get", "save"}
                    /\ passes'[p].idx > passes[p].idx
                    /\ Len(stateData'.sessions) = Len(stateData.sessions)
                    /\ \A i \in 1..Len(stateData.sessions) :
                          LET old == stateData.sessions[i]
                              new == stateData'.sessions[i]
                          IN IF Attached(i, Current(p))
                             THEN /\ new.rec.lastRestoreAttemptAt = passes[p].now
                                  /\ ~ok =>
                                       /\ new = [old EXCEPT
                                                   !.rec.lastRestoreAttemptAt = passes[p].now]
                                       /\ Eligible(new.rec, passes[p].now,
                                                   thresholdOf(intervalMsOf(config)))
                                       /\ "log" \in passes'[p].calls
                             ELSE new = old

C20_GoesOn ==
    \A p \in Passes :
        (passes[p].pc \in {"save", "done"} /\ passes[p].outcome = "scanned") =>
            \A i \in 1..Len(passes[p].entries) :
                Eligible(passes[p].entries[i].rec, passes[p].now,
                         thresholdOf(intervalMsOf(config))) => i \in passes[p].seen

SweptWhenDue(rec, now) ==
    /\ rec.exhaustedAt # 0
    /\ now - rec.exhaustedAt >= intervalMsOf(config)
    /\ WellFormed(OrElse(rec.originalModel, config.primaryModel))
    /\ WellFormed(OrElse(rec.fallbackModel, config.fallbackModel))

C21_OnlyEligibleSeen ==
    \A p \in Passes :
        \A i \in passes[p].seen : SweptWhenDue(passes[p].entries[i].rec, passes[p].now)

C21_OthersUntouched ==
    \A p \in Passes :
        (passes[p].pc \in {"get", "update"} /\ passes'[p] # passes[p]) =>
            /\ Len(stateData'.sessions) = Len(stateData.sessions)
            /\ \A i \in 1..Len(stateData.sessions) :
                  stateData.sessions[i].sid # Current(p).sid =>
                      stateData'.sessions[i] = stateData.sessions[i]

C21_Eligibility == []C21_OnlyEligibleSeen /\ [][C21_OthersUntouched]_vars

(***************************************************************************)
(* C22: record contents.  The record the hook stores for a session takes   *)
(* the place of any earlier record of that session and holds exhaustedAt = *)
(* lastFallbackAt = the handling time, no restoredAt and no                *)
(* lastRestoreAttemptAt, as fallbackModel the configured fallback          *)
(* reference (when that is of the form provider/model) and as              *)
(* originalModel the session's model before the switch, or the configured  *)
(* primary model when the session's model is unknown: originalModel is     *)
(* never empty.                                                            *)
(***************************************************************************)
C22_RecordContents ==
    [][ \A h \in Handlers :
          (Steps(h, "persist") /\ EventPersist(h)) =>
             LET sid == handlers[h].sid
                 before == handlers[h].sessionModel
                 rec == RecordOf(stateData', sid)
             IN /\ HasKey(stateData'.sessions, sid)
                /\ Cardinality({i \in 1..Len(stateData'.sessions) :
                                    stateData'.sessions[i].sid = sid}) = 1
                /\ rec.exhaustedAt = clock
                /\ rec.lastFallbackAt = clock
                /\ rec.restoredAt = 0
                /\ rec.lastRestoreAttemptAt = 0
                /\ WellFormed(config.fallbackModel) =>
                       parseModel(rec.fallbackModel) = parseModel(config.fallbackModel)
                /\ rec.originalModel # Null
                /\ parseModel(rec.originalModel)
                       = (IF before.ok THEN before ELSE parseModel(config.primaryModel))
          ]_vars

(***************************************************************************)
(* C23: aborts before the confirmation step leave no trace.  The step in   *)
(* which an invocation ends because the event has no session id, licensing *)
(* fails, the fallback model does not parse, the session is on another     *)
(* provider or there is no user message to replay changes neither          *)
(* attemptedSessions nor the persisted state nor the file, and the         *)
(* invocation has issued no prompt and no confirmation; the session can    *)
(* still fall back on a later event.                                       *)
(***************************************************************************)
EarlyAborts ==
    {"no_session", "unlicensed", "bad_fallback", "other_provider", "no_message"}

C23_AbortsLeaveNoTrace ==
    [][ \A h \in Handlers :
          ( /\ handlers[h].pc # "done"
            /\ handlers'[h].pc = "done"
            /\ handlers'[h].outcome \in EarlyAborts ) =>
                /\ NoEffect
                /\ "prompt" \notin handlers'[h].calls
                /\ "confirm" \notin handlers'[h].calls ]_vars

C23_Witness ==
    \E g \in Handlers, h \in Handlers :
        /\ handlers[g].pc = "done"
        /\ handlers[g].outcome = "no_message"
        /\ handlers[h].pc = "done"
        /\ handlers[h].outcome = "fell_back"
        /\ handlers[h].sid = handlers[g].sid
        /\ promptCalls[handlers[h].sid] = 1

(***************************************************************************)
(* C24: attemptedSessions only grows; an invocation that starts for a      *)
(* session already in it ends at once with no host call and no change of   *)
(* state, whatever the sweeper has done to the record since; and the hook  *)
(* stores a record for a session at most once in a process.                *)
(***************************************************************************)
C24_OnlyGrows == attempted \subseteq attempted'

C24_LaterEventsInert ==
    \A h \in Handlers :
        (Starts(h) /\ handlers'[h].sid \in attempted) =>
            /\ handlers'[h].pc = "done"
            /\ handlers'[h].calls = {}
            /\ NoEffect

C24_OneRecordPerProcess ==
    \A i \in 1..Len(stateData.sessions) : stateData.sessions[i].rec.oid <= 1

C24_AttemptedOnce ==
    /\ [][C24_OnlyGrows /\ C24_LaterEventsInert]_vars
    /\ []C24_OneRecordPerProcess

(***************************************************************************)
(* C25: flush after mutation.  Whenever no hook invocation and no pass is  *)
(* in progress, the state file holds what state.stateData holds (state     *)
(* file writes succeed in the model).  The hook writes the file in the     *)
(* step after it stored the record; a pass writes the file in its last     *)
(* step only, after the last record, and in no other step.                 *)
(***************************************************************************)
Quiescent ==
    /\ \A h \in Handlers : handlers[h].pc \in {"idle", "done"}
    /\ \A p \in Passes : passes[p].pc \in {"idle", "done"}

\* the file holds the fields JSON.stringify writes, for the same sessions
SameOnDisk(file, sd) ==
    /\ file.lastCheckAt = sd.lastCheckAt
    /\ Len(file.sessions) = Len(sd.sessions)
    /\ \A i \in 1..Len(sd.sessions) :
          /\ file.sessions[i].sid = sd.sessions[i].sid
          /\ \A f \in DOMAIN sd.sessions[i].rec \ {"oid"} :
                 file.sessions[i].rec[f] = sd.sessions[i].rec[f]

C25_FlushedWhenQuiet == Quiescent => SameOnDisk(disk, stateData)

C25_FlushSteps ==
    /\ \A h \in Handlers :
          /\ Steps(h, "persist") => handlers'[h].pc = "save"
          /\ Steps(h, "save") => SameOnDisk(disk', stateData)
    /\ \A p \in Passes :
          /\ Moves(p, "save") =>
                (SameOnDisk(disk', stateData) /\ passes'[p].pc = "done")
          /\ (passes'[p] # passes[p] /\ passes[p].pc # "save") => UNCHANGED disk

C25_FlushAfterMutation == []C25_FlushedWhenQuiet /\ [][C25_FlushSteps]_vars

C25_Witness ==
    /\ Quiescent
    /\ \E h \in Handlers, p \in Passes :
          /\ handlers[h].outcome = "fell_back"
          /\ passes[p].outcome = "scanned"
          /\ passes[p].pc = "done"
          /\ HasKey(disk.sessions, handlers[h].sid)
          /\ RecordOf(disk, handlers[h].sid).exhaustedAt = ClockStart
          /\ disk.lastCheckAt = passes[p].now

(***************************************************************************)
(* C26: malformed fallback reference.  When the configured fallback model  *)
(* is not a string of the form provider/model with both parts non-empty,   *)
(* an invocation ends in its first step: it reads no session, asks no      *)
(* confirmation, sends no prompt, stores no record and does not mark the   *)
(* session attempted.                                                      *)
(***************************************************************************)
C26_MalformedFallback ==
    [][ \A h \in Handlers :
          (Starts(h) /\ ~WellFormed(config.fallbackModel)) =>
              /\ handlers'[h].pc = "done"
              /\ handlers'[h].calls \subseteq {"providers", "log"}
              /\ NoEffect ]_vars

(***************************************************************************)
(* C27: restore timestamps respect eligibility.  In every state, for every *)
(* record the hook has written in this process, in the store and in the    *)
(* file: restoredAt, when set, is at least one sweep interval after        *)
(* exhaustedAt; so is lastRestoreAttemptAt, when set; and neither is later *)
(* than lastCheckAt.                                                       *)
(***************************************************************************)
StampsInOrder(sd) ==
    \A i \in 1..Len(sd.sessions) :
        LET rec == sd.sessions[i].rec
        IN rec.exhaustedAt >= ClockStart =>
              /\ rec.restoredAt # 0 =>
                    /\ rec.restoredAt - rec.exhaustedAt >= intervalMsOf(config)
                    /\ rec.restoredAt <= sd.lastCheckAt
              /\ rec.lastRestoreAttemptAt # 0 =>
                    /\ rec.lastRestoreAttemptAt - rec.exhaustedAt >= intervalMsOf(config)
                    /\ rec.lastRestoreAttemptAt <= sd.lastCheckAt

C27_RestoreTimestamps == StampsInOrder(stateData) /\ StampsInOrder(disk)

C27_Witness ==
    \E i \in 1..Len(disk.sessions) :
        /\ disk.sessions[i].rec.exhaustedAt >= ClockStart
        /\ disk.sessions[i].rec.restoredAt # 0
        /\ disk.sessions[i].rec.lastRestoreAttemptAt # 0
        /\ disk = Serialize(stateData)

(***************************************************************************)
(* C28: separation of effects.  A step of the hook issues no model-update  *)
(* call and changes neither lastCheckAt nor the record of a session other  *)
(* than the event's; a step of a pass sends no prompt, shows no            *)
(* confirmation and leaves attemptedSessions as it was.                    *)
(***************************************************************************)
C28_HookSteps ==
    \A h \in Handlers :
        handlers'[h] # handlers[h] =>
            /\ "update" \notin handlers'[h].calls
            /\ UNCHANGED passes
            /\ stateData'.lastCheckAt = stateData.lastCheckAt
            /\ \A i \in 1..Len(stateData.sessions) :
                  stateData.sessions[i].sid # handlers'[h].sid =>
                      /\ i <= Len(stateData'.sessions)
                      /\ stateData'.sessions[i] = stateData.sessions[i]

C28_SweepSteps ==
    \A p \in Passes :
        passes'[p] # passes[p] =>
            /\ passes'[p].calls \subseteq {"get", "update", "toast", "log"}
            /\ UNCHANGED << attempted, promptCalls, confirmCalls, delivered, handlers >>

C28_SeparationOfEffects == [][C28_HookSteps /\ C28_SweepSteps]_vars

C28_Witness ==
    \E h \in Handlers, p \in Passes :
        /\ handlers[h].outcome = "fell_back"
        /\ handlers[h].sid \in attempted
        /\ passes[p].pc = "done"
        /\ "update" \in passes[p].calls
        /\ Len(stateData.sessions) = 2
        /\ stateData.lastCheckAt = passes[p].now

(***************************************************************************)
(* C29: sweep interval bounds.  When the plugin starts with restore        *)
(* enabled, the period the timer is set to is at least one hour, is 24     *)
(* hours when intervalHours is unset or zero, and is the threshold the     *)
(* passes use for the rate limit and for eligibility; and one pass begins  *)
(* in the same step.                                                       *)
(***************************************************************************)
C29_IntervalBounds ==
    [][ (~started /\ started' /\ config.restoreEnabled) =>
           LET period == timerDue' - clock
           IN /\ period >= MinIntervalHours * HOUR_MS
              /\ ~Truthy(config.intervalHours) => period = DefaultIntervalHours * HOUR_MS
              /\ period = thresholdOf(intervalMsOf(config))
              /\ passes'[1].pc # "idle"
              /\ passes'[1].now = clock ]_vars

(***************************************************************************)
(* C30: trigger classification.  An error event counts as credit           *)
(* exhaustion exactly when its status is a configured status, or its code  *)
(* is a configured code up to case, or its text (the serialized event when *)
(* it has no message) contains a configured substring up to case; one      *)
(* signal is enough whatever the other two are.  The hook goes past the    *)
(* classification for exactly these events.                                *)
(***************************************************************************)
AnySignal(e) == StatusSignal(e) \/ CodeSignal(e) \/ TextSignal(e)

\* the classification reads the event and the configuration only, and the
\* configuration is fixed once the plugin is constructed
C30_Classified ==
    ~started =>
        \A e \in Events :
            e.type = "session.error" => (isCreditExhausted(e, config) <=> AnySignal(e))

C30_Passed ==
    \A h \in Handlers, e \in Events :
        (CanStart(h, e) /\ e.type = "session.error" /\ config.enabled) =>
            \A prov \in ProviderAnswersFor(config) :
                StartResult(h, e, prov).outcome = "no_match" <=> ~AnySignal(e)

C30_TriggerClassification == C30_Classified /\ C30_Passed

C30_Witness ==
    /\ \E e \in Events :
          /\ e.type = "session.error"
          /\ StatusSignal(e) /\ ~CodeSignal(e) /\ ~TextSignal(e)
          /\ isCreditExhausted(e, config)
    /\ \E e \in Events :
          /\ e.type = "session.error"
          /\ ~StatusSignal(e) /\ CodeSignal(e) /\ ~TextSignal(e)
          /\ isCreditExhausted(e, config)
    /\ \E e \in Events :
          /\ e.type = "session.error"
          /\ ~StatusSignal(e) /\ ~CodeSignal(e) /\ TextSignal(e)
          /\ FirstString(e.messageC).t # "str"
          /\ isCreditExhausted(e, config)
    /\ \E g \in Handlers, h \in Handlers :
          /\ handlers[g].outcome = "no_match"
          /\ handlers[h].pc = "get"

=============================================================================
